---- MODULE Spec2Model ----
(***************************************************************************)
(* Resilient LLM invoker of the CV-analysis agents, and the web client of  *)
(* the production system.                                                  *)
(*                                                                         *)
(* LLMClient.call_with_retry, LLMClient.try_fallback_model and the         *)
(* CircuitBreaker are translated from the code blocks of                   *)
(* agents/README.md (lines 276-337).  The boundary around them (invoke:    *)
(* the exception handler, response processing, the fallback extractor and  *)
(* the ParseResult) lives in agent modules that are not part of the        *)
(* source tree; it is modelled from the specification.                     *)
(*                                                                         *)
(* The web client is App (startup effect, login, logout, routes) with the  *)
(* axios interceptors and authAPI of services/api.js.                      *)
(*                                                                         *)
(* Specifications: Spec and FairSpec (one invocation at a time), ConcSpec  *)
(* (invocations in flight together), RespSpec (response processing of one  *)
(* completion), AppSpec and AppFairSpec (the web client), AnalysisSpec      *)
(* (AnalysisPage: upload, job description, analysis, reset) and ListSpec   *)
(* (CVLibraryPage, JobDescriptionsPage and ComparisonsPage: list, create,  *)
(* delete, with the server that answers them).                             *)
(***************************************************************************)
EXTENDS Integers, Sequences, FiniteSets, TLC

(* ------------------------------ bounds --------------------------------- *)

\* invocations that may be in flight at once on one LLMClient (one
\* CircuitBreaker): in Spec, and in ConcSpec
NumProcs == 1
NumConcurrent == 2
\* invocations started in one behaviour
MaxInvocations == 3
\* no idle period begins after this time
MaxTime == 6

(* ------------------------ program constants ---------------------------- *)

\* LLMClient.__init__(retry_attempts = 3)
retry_attempts == 3
\* CircuitBreaker.__init__(failure_threshold = 5)
failure_threshold == 5
\* CircuitBreaker.__init__(recovery_timeout = 60)
recovery_timeout == 60
\* "confidence capped at a low ceiling (e.g., 0.3)", in hundredths
LowCeiling == 30

\* self.last_failure_time = None
None == -1

(* ---------------------------- data model ------------------------------- *)

\* the target schema: the required field names of the prompt
RequiredFields == {"job_title", "required_skills"}

\* ParseRequest: the input text, as the lines the fallback patterns see
ParseRequests == {<<"title", "skill">>, <<"other", "other", "other", "skill">>}

\* idle periods between two events, in seconds
Delays == {recovery_timeout}

\* What make_llm_call can deliver: a text completion, or an exception.
\* A completion is either JSON holding some of the required fields, or
\* text that neither parses nor can be repaired.
Responses ==
    {[wellformed |-> TRUE, present |-> s] : s \in SUBSET RequiredFields}
        \cup {[wellformed |-> FALSE, present |-> {}]}

TransientErrors == {"TimeoutError", "ConnectionError"}
Exceptions == TransientErrors \cup
    {"AuthError", "CircuitBreakerOpenException", "LLMProcessingException"}

Min(a, b) == IF a < b THEN a ELSE b

VARIABLES
    state,              \* CircuitBreaker.state
    failure_count,      \* CircuitBreaker.failure_count
    last_failure_time,  \* CircuitBreaker.last_failure_time
    now,                \* time.time()
    pc,                 \* where each invocation stands
    attempt,            \* loop variable of call_with_retry
    request,            \* the ParseRequest of the invocation
    wake,               \* end of the current asyncio.sleep
    result,             \* the ParseResult returned by the invocation
    raised,             \* an exception left invoke()
    calls,              \* network calls issued by the invocation
    log,                \* what happened in the invocation, in order
    at_start,           \* the circuit as the invocation found it
    streak,             \* recorded failures since the last recorded success
    started,            \* invocations started so far
    workers,            \* how many invocations the service runs at once
    completion,         \* response processing: the text of a completion
    schema,             \* response processing: the required-field list
    outcome,            \* response processing: what it made of the text
    authToken,          \* web client: localStorage item 'authToken'
    user,               \* web client: App state user
    loading,            \* web client: App state loading
    location,           \* web client: the route the browser is at
    leaving,            \* web client: window.location.href was assigned
    inflight,           \* web client: requests sent and not yet answered
    boot,               \* web client: how far the startup effect has come
    event,              \* web client: what last cleared or delivered a token
    notice,             \* web client: what the last form handler left behind
    step,               \* AnalysisPage: state step
    cvData,             \* AnalysisPage: state cvData
    jdData,             \* AnalysisPage: state jdData
    isProcessing,       \* AnalysisPage: state isProcessing
    analysisResults,    \* AnalysisPage: state analysisResults
    task,               \* AnalysisPage: the handler that is at an await
    run,                \* AnalysisPage: runAnalysis invocations so far
    resetRun,           \* AnalysisPage: value of run at the last reset
    responses,          \* AnalysisPage: responses to the invocation's calls
    settled,            \* AnalysisPage: how the last invocation ended
    listPage,           \* list pages: which of the pages is mounted
    mounted,            \* list pages: the mount effect has run
    server,             \* list pages: ids of the records the server holds
    gone,               \* list pages: ids the server has deleted
    items,              \* list pages: ids in the state list (cvs, ...)
    isLoading,          \* list pages: state isLoading
    isSubmitting,       \* list pages: state isSubmitting / isUploading
    sent,               \* list pages: requests at an await
    toasts,             \* list pages: what the last continuation reported
    removed             \* list pages: ids a successful delete took off the list

cbVars == <<state, failure_count, last_failure_time>>

\* the LLM client with its invocations
clientVars == <<cbVars, now, pc, attempt, request, wake, result, raised,
                calls, log, at_start, streak, started, workers>>

\* response processing on its own
respVars == <<completion, schema, outcome>>

\* the web client (App and services/api.js)
appVars ==
    <<authToken, user, loading, location, leaving, inflight, boot, event, notice>>

\* AnalysisPage
analysisVars == <<step, cvData, jdData, isProcessing, analysisResults, task,
                  run, resetRun, responses, settled>>

\* CVLibraryPage, JobDescriptionsPage and ComparisonsPage
listVars == <<listPage, mounted, server, gone, items, isLoading, isSubmitting,
              sent, toasts, removed>>

\* the pages below App
pageVars == <<analysisVars, listVars>>

\* what no step of the LLM client touches
otherVars == <<respVars, appVars, pageVars>>

vars == <<clientVars, otherVars>>

\* the invocations that may be in flight at once (MAX_CONCURRENT_REQUESTS)
Procs == 1..workers

(* --------------------------- CircuitBreaker ---------------------------- *)

\* variant: the cooldown comparison reversed
is_open_Reversed(st, last, t) ==
    st = "OPEN" /\ ~(t - last < recovery_timeout)

\* is_open(): the value returned
is_open(st, last, t) ==
    st = "OPEN" /\ ~(t - last > recovery_timeout)

\* variant: the cooldown never moves the state on
is_open_state_Stays(st, last, t) == st

\* is_open(): the state it leaves behind (OPEN past the cooldown becomes
\* HALF_OPEN)
is_open_state(st, last, t) ==
    IF st = "OPEN" /\ t - last > recovery_timeout THEN "HALF_OPEN" ELSE st

\* variant: a success closes the circuit and keeps the counter
record_success_KeepsCount ==
    /\ state' = "CLOSED"
    /\ UNCHANGED <<failure_count, last_failure_time>>

\* record_success()
record_success ==
    /\ failure_count' = 0
    /\ state' = "CLOSED"
    /\ UNCHANGED last_failure_time

\* variant: the threshold must be exceeded, not reached
record_failure_state_Strict(st, cnt) ==
    IF cnt > failure_threshold THEN "OPEN" ELSE st

\* record_failure(): the state after the increment; st is the state before
record_failure_state(st, cnt) ==
    IF cnt >= failure_threshold THEN "OPEN" ELSE st

\* variant: the time of the first failure is kept
record_failure_KeepsTime ==
    /\ failure_count' = failure_count + 1
    /\ last_failure_time' = IF last_failure_time = None THEN now
                            ELSE last_failure_time
    /\ state' = record_failure_state(state, failure_count + 1)

\* record_failure()
record_failure ==
    /\ failure_count' = failure_count + 1
    /\ last_failure_time' = now
    /\ state' = record_failure_state(state, failure_count + 1)

(* ------------------- ParseResult and the two extractors ---------------- *)

RequiredFieldList == <<"job_title", "required_skills">>

\* the line pattern of each field of the fallback extractor
Pattern(f) == IF f = "job_title" THEN "title" ELSE "skill"

Matches(req, f) == SelectSeq(req, LAMBDA l : l = Pattern(f))

Matched(req) == SelectSeq(req, LAMBDA l : \E f \in RequiredFields : l = Pattern(f))

\* share of the lines some pattern matched, in hundredths
RawScore(req) == IF Len(req) = 0 THEN 0 ELSE (Len(Matched(req)) * 100) \div Len(req)

\* the names a sequence holds
Range(sq) == {sq[i] : i \in DOMAIN sq}

\* variant: the score counts the fields that are missing
calculate_completeness_score_Missing(present, required) ==
    (Cardinality(Range(required) \ present) * 100) \div Len(required)

\* _calculate_completeness_score: required fields present / required fields
\* expected, in hundredths
calculate_completeness_score(present, required) ==
    (Cardinality(Range(required) \cap present) * 100) \div Len(required)

\* completeness score against the target schema
Completeness(present) ==
    calculate_completeness_score(present, RequiredFieldList)

\* validate_parsed_data: the parsed object against the required-field list;
\* a missing field gets an empty default and a note that names it
validate_parsed_data(present, required) ==
    [fields        |-> [f \in Range(required) |->
                           IF f \in present THEN <<f>> ELSE <<>>],
     confidence    |-> calculate_completeness_score(present, required),
     parsing_notes |-> SelectSeq(required, LAMBDA f : f \notin present),
     is_degraded   |-> FALSE]

\* variant: no ceiling on the confidence
FallbackExtractor_Uncapped(req, cause) ==
    [fields        |-> [f \in RequiredFields |-> Matches(req, f)],
     confidence    |-> RawScore(req),
     parsing_notes |-> <<cause>>,
     is_degraded   |-> TRUE]

\* the deterministic fallback extractor (pattern based), with the cause of
\* the degradation as its note; confidence capped at the low ceiling
FallbackExtractor(req, cause) ==
    [fields        |-> [f \in RequiredFields |-> Matches(req, f)],
     confidence    |-> Min(RawScore(req), LowCeiling),
     parsing_notes |-> <<cause>>,
     is_degraded   |-> TRUE]

\* variant: a result with missing fields is marked degraded
ProcessResponse_DegradesIncomplete(r) ==
    [fields        |-> [f \in RequiredFields |->
                           IF f \in r.present THEN <<f>> ELSE <<>>],
     confidence    |-> Completeness(r.present),
     parsing_notes |-> SelectSeq(RequiredFieldList, LAMBDA f : f \notin r.present),
     is_degraded   |-> r.present # RequiredFields]

\* response processing of a completion that parsed (possibly after repair):
\* missing required fields get an empty default and a note
ProcessResponse(r) == validate_parsed_data(r.present, RequiredFieldList)

NoResult ==
    [fields        |-> [f \in RequiredFields |-> <<>>],
     confidence    |-> 0,
     parsing_notes |-> <<>>,
     is_degraded   |-> FALSE]

(* ------------------------- response processing ------------------------ *)

\* A completion is text: a sequence of tokens.  A field token stands for
\* one "name": value member of a JSON object.
\* the code block markers: three backquotes with the language, and three
\* backquotes alone
FenceJson == "fence json"
Fence == "fence"
JsonTokens == {"{", "}", ","} \cup RequiredFields

\* longest JSON text processed
MaxLen == 5

RECURSIVE TextsUpTo(_)
TextsUpTo(n) ==
    IF n = 0 THEN {<<>>}
    ELSE TextsUpTo(n - 1) \cup
         {Append(t, k) : t \in {u \in TextsUpTo(n - 1) : Len(u) = n - 1},
                         k \in JsonTokens}

\* the JSON texts, well formed or not: no code-fence marker in them
JsonTexts == TextsUpTo(MaxLen)

\* how a model wraps its JSON: not at all, between the json marker and the
\* plain one, between two plain ones, or with a marker on one side only
Wrappings == {<<w, c>> : w \in {<<>>, <<FenceJson>>, <<Fence>>},
                         c \in {<<>>, <<Fence>>}}

Wrap(w, t) == w[1] \o t \o w[2]

\* the required-field lists of the prompts
Schemas == {<<"job_title">>, RequiredFieldList,
            <<"company", "job_title", "required_skills">>}

\* variant: only the opening marker is removed
clean_json_response_OpeningOnly(t) ==
    IF Len(t) > 0 /\ Head(t) \in {FenceJson, Fence} THEN Tail(t) ELSE t

\* _clean_json_response: removes the code block markers around the text
clean_json_response(t) ==
    LET a == IF Len(t) > 0 /\ Head(t) \in {FenceJson, Fence} THEN Tail(t) ELSE t
    IN  IF Len(a) > 0 /\ a[Len(a)] = Fence THEN SubSeq(a, 1, Len(a) - 1) ELSE a

\* strict JSON: { member , member ... }
IsJson(t) ==
    /\ Len(t) >= 2
    /\ t[1] = "{"
    /\ t[Len(t)] = "}"
    /\ Len(t) > 2 => Len(t) % 2 = 1
    /\ \A i \in 2..(Len(t) - 1) :
           IF i % 2 = 0 THEN t[i] \in RequiredFields ELSE t[i] = ","

\* the members of the parsed object
Members(t) == {t[i] : i \in 2..(Len(t) - 1)} \cap RequiredFields

RECURSIVE TrimTrailingCommas(_)
\* repair: a comma before a closing bracket or at the end is dropped
TrimTrailingCommas(t) ==
    IF Len(t) = 0 THEN t
    ELSE IF Head(t) = "," /\ (Len(t) = 1 \/ t[2] = "}")
         THEN TrimTrailingCommas(Tail(t))
         ELSE <<Head(t)>> \o TrimTrailingCommas(Tail(t))

\* repair: an object left unterminated is closed
CloseBrackets(t) ==
    IF Len(t) > 0 /\ t[1] = "{" /\ t[Len(t)] # "}" THEN Append(t, "}") ELSE t

\* _attempt_json_repair: the common fixes, each applied once
attempt_json_repair(t) == CloseBrackets(TrimTrailingCommas(t))

\* what response processing makes of the text of a completion: the parsed
\* object, or a text that neither parses nor can be repaired
ParseCompletion(text) ==
    LET c == clean_json_response(text)
        f == attempt_json_repair(c)
    IN  IF IsJson(c) THEN [wellformed |-> TRUE, present |-> Members(c)]
        ELSE IF IsJson(f) THEN [wellformed |-> TRUE, present |-> Members(f)]
        ELSE [wellformed |-> FALSE, present |-> {}]

Pending == [status |-> "pending", response |-> [wellformed |-> FALSE, present |-> {}],
            result |-> NoResult]

\* what response processing yields for a text and a required-field list
process_outcome(text, required) ==
    LET r == ParseCompletion(text)
    IN  IF r.wellformed
        THEN [status |-> "parsed", response |-> r,
              result |-> validate_parsed_data(r.present, required)]
        ELSE [status |-> "malformed", response |-> r, result |-> NoResult]

\* response processing of one completion against one required-field list
process_response ==
    /\ outcome.status = "pending"
    /\ outcome' = process_outcome(completion, schema)
    /\ UNCHANGED <<completion, schema, clientVars, appVars, pageVars>>

(* ------------------------------- invoke -------------------------------- *)

\* variant: the handler names the transient errors only
Caught_TransientOnly(exc) == exc \in TransientErrors

\* the exceptions the handler of invoke() turns into a degraded result
Caught(exc) == exc \in Exceptions

\* invoke() hands a ParseResult to its caller
Finish(p, res, esc) ==
    /\ pc' = [pc EXCEPT ![p] = "done"]
    /\ result' = [result EXCEPT ![p] = res]
    /\ raised' = [raised EXCEPT ![p] = esc]

\* call_with_retry returned a completion that parsed
InvokeReturn(p, r) == Finish(p, ProcessResponse(r), FALSE)

\* an exception left call_with_retry
InvokeRaise(p, req, exc) ==
    IF Caught(exc)
    THEN Finish(p, FallbackExtractor(req, exc), FALSE)
    ELSE Finish(p, NoResult, TRUE)

RECURSIVE Pow2(_)
Pow2(n) == IF n = 0 THEN 1 ELSE 2 * Pow2(n - 1)

\* await asyncio.sleep(2 ** attempt)
Backoff(p) ==
    /\ pc' = [pc EXCEPT ![p] = "backoff"]
    /\ wake' = [wake EXCEPT ![p] = now + Pow2(attempt[p])]
    /\ UNCHANGED <<result, raised>>

Logged(p, e) == log' = [log EXCEPT ![p] = Append(@, e)]

\* variant: a completion that cannot be repaired degrades at once
Processed_NoRetry(p, r) ==
    IF r.wellformed
    THEN InvokeReturn(p, r) /\ Logged(p, "ok") /\ UNCHANGED wake
    ELSE /\ Logged(p, "malformed")
         /\ InvokeRaise(p, request[p], "LLMProcessingException")
         /\ UNCHANGED wake

\* response processing of a completion call_with_retry obtained in its
\* iteration `attempt`: a completion that parses is the result; one that
\* cannot be repaired uses up the attempt like a failure
Processed(p, r) ==
    IF r.wellformed
    THEN InvokeReturn(p, r) /\ Logged(p, "ok") /\ UNCHANGED wake
    ELSE /\ Logged(p, "malformed")
         /\ IF attempt[p] = retry_attempts - 1
            THEN InvokeRaise(p, request[p], "LLMProcessingException")
                     /\ UNCHANGED wake
            ELSE Backoff(p)

(* ------------------------------ web client ---------------------------- *)

\* localStorage.getItem('authToken') of an absent item, and what the item
\* can hold: a JWT whose exp is ahead, one whose exp is behind (or missing),
\* a string jwt_decode throws on
NoToken == "none"
Tokens == {"valid", "expired", "undecodable"}

\* useState(null), and the users the server knows
NoUser == "null"
Users == {"u1"}

ProtectedPaths == {"/dashboard", "/analysis", "/cvs", "/job-descriptions",
                   "/comparisons", "/comparisons/:id", "/profile"}
PublicPaths == {"/login", "/register"}
Paths == ProtectedPaths \cup PublicPaths \cup {"/", "/other"}

\* requests the page lets run at once
MaxInFlight == 2

Kinds == {"profile", "login", "register", "data"}

\* HTTP status of a response; a login or register response with status 200
\* has a body with success and, possibly, access_token
Statuses == {200, 401, 500}
AuthBodies == {[success |-> TRUE,  access_token |-> TRUE],
               [success |-> TRUE,  access_token |-> FALSE],
               [success |-> FALSE, access_token |-> FALSE]}

\* request interceptor: Authorization = Bearer <token> when a token is stored
RequestInterceptor(kind, token) ==
    [kind |-> kind,
     Authorization |-> IF token # NoToken THEN "Bearer" ELSE "absent"]

\* variant: a 401 leaves the token where it is
ResponseInterceptor_KeepsToken(status, token) == token

\* response interceptor: the token it leaves in localStorage
ResponseInterceptor(status, token) ==
    IF status = 401 THEN NoToken ELSE token

\* response interceptor: window.location.href = '/login'
Redirects(status) == status = 401

\* the element a route renders to: a page, or a Navigate to another route
Shows(page) == [page |-> page, to |-> ""]
Navigate(to) == [page |-> "", to |-> to]
Spinner == Shows("spinner")

\* variant: the children are rendered whoever asks
ProtectedRoute_Open(u, l, children) ==
    IF l THEN Spinner ELSE Shows(children)

ProtectedRoute(u, l, children) ==
    IF l THEN Spinner
    ELSE IF u # NoUser THEN Shows(children) ELSE Navigate("/login")

PublicRoute(u, l, children) ==
    IF l THEN Spinner
    ELSE IF u # NoUser THEN Navigate("/dashboard") ELSE Shows(children)

\* <Routes>: the element of the route that matches path
Routes(path, u, l) ==
    IF path \in PublicPaths THEN PublicRoute(u, l, path)
    ELSE IF path \in ProtectedPaths THEN ProtectedRoute(u, l, path)
    ELSE IF path = "/"
         THEN (IF u # NoUser THEN Navigate("/dashboard") ELSE Navigate("/login"))
         ELSE Navigate("/")

RECURSIVE Settle(_, _, _)
\* the route the browser is at once every Navigate has run; while loading,
\* App renders no router at all
Settle(path, u, l) ==
    IF l \/ Routes(path, u, l).to = "" THEN path
    ELSE Settle(Routes(path, u, l).to, u, l)

\* what App renders: its own spinner while loading, else the routed page
View(path, u, l) ==
    IF l THEN "spinner" ELSE Routes(path, u, l).page

Page == View(location, user, loading)

\* App is constructed at a path: useState(null), useState(true); requests of
\* the page before are gone
Mount(path) ==
    /\ user' = NoUser
    /\ loading' = TRUE
    /\ location' = path
    /\ leaving' = FALSE
    /\ inflight' = {}
    /\ boot' = "mounting"

\* variant: an expired token is removed and the spinner stays
Startup_ExpiredKeepsLoading ==
    /\ boot = "mounting"
    /\ IF authToken = NoToken
       THEN /\ loading' = FALSE /\ boot' = "no_token"
            /\ UNCHANGED <<authToken, inflight>>
       ELSE IF authToken = "undecodable"
       THEN /\ authToken' = NoToken /\ loading' = FALSE /\ boot' = "undecodable"
            /\ UNCHANGED inflight
       ELSE IF authToken = "valid"
       THEN /\ inflight' = inflight \cup {RequestInterceptor("profile", authToken)}
            /\ boot' = "profile"
            /\ UNCHANGED <<authToken, loading>>
       ELSE /\ authToken' = NoToken /\ boot' = "expired"
            /\ UNCHANGED <<loading, inflight>>
    /\ location' = Settle(location, user, loading')
    /\ UNCHANGED <<user, leaving, event, clientVars, respVars, pageVars>>
    /\ UNCHANGED notice

\* useEffect(..., []): the stored token is looked at once, after the first
\* render
Startup ==
    /\ boot = "mounting"
    /\ IF authToken = NoToken
       THEN /\ loading' = FALSE /\ boot' = "no_token"
            /\ UNCHANGED <<authToken, inflight>>
       ELSE IF authToken = "undecodable"
       THEN /\ authToken' = NoToken /\ loading' = FALSE /\ boot' = "undecodable"
            /\ UNCHANGED inflight
       ELSE IF authToken = "valid"
       THEN /\ inflight' = inflight \cup {RequestInterceptor("profile", authToken)}
            /\ boot' = "profile"
            /\ UNCHANGED <<authToken, loading>>
       ELSE /\ authToken' = NoToken /\ loading' = FALSE /\ boot' = "expired"
            /\ UNCHANGED inflight
    /\ location' = Settle(location, user, loading')
    /\ UNCHANGED <<user, leaving, event, clientVars, respVars, pageVars>>
    /\ UNCHANGED notice

\* a request of the kind is waiting for its response
Waiting(kind) == {r \in inflight : r.kind = kind}

\* what a response does to the ghost event
Cleared(status) == IF status = 401 THEN "unauthorized" ELSE event

\* loadUserProfile: the response to authAPI.getProfile() is there
ProfileResponse(r, status, u) ==
    /\ r \in Waiting("profile")
    /\ inflight' = inflight \ {r}
    /\ IF status = 200
       THEN /\ user' = u
            /\ boot' = "profile_ok"
            /\ UNCHANGED <<authToken, leaving>>
       ELSE /\ authToken' = NoToken
            /\ leaving' = (leaving \/ Redirects(status))
            /\ boot' = "profile_failed"
            /\ UNCHANGED user
    /\ event' = Cleared(status)
    /\ loading' = FALSE
    /\ location' = Settle(location, user', loading')
    /\ UNCHANGED <<clientVars, respVars, pageVars>>
    /\ UNCHANGED notice

\* a request is sent through the axios instance
Send(kind) ==
    /\ Cardinality(inflight) < MaxInFlight
    /\ RequestInterceptor(kind, authToken) \notin inflight
    /\ inflight' = inflight \cup {RequestInterceptor(kind, authToken)}
    /\ UNCHANGED <<authToken, user, loading, location, leaving, boot, event,
                   clientVars, respVars, pageVars>>
    /\ UNCHANGED notice

\* LoginPage.onSubmit up to its await
SubmitLogin == Page = "/login" /\ Send("login")

\* RegisterPage.onSubmit up to its await
SubmitRegister == Page = "/register" /\ Send("register")

\* a protected page asks the server for its data
Fetch == Page \in ProtectedPaths /\ Send("data")

\* authAPI.login / authAPI.register after the await: the token the response
\* leaves in localStorage
Delivered(status, body, token) ==
    IF status = 200
    THEN (IF body.access_token THEN "valid" ELSE token)
    ELSE ResponseInterceptor(status, token)

\* the response to a login or register request, up to the page's handler
AuthResponse(r, status, body) ==
    /\ inflight' = inflight \ {r}
    /\ authToken' = Delivered(status, body, authToken)
    /\ leaving' = (leaving \/ Redirects(status))
    /\ event' = IF status = 200 /\ body.access_token THEN "delivered"
                ELSE Cleared(status)

\* the props App's routes hand to LoginPage and RegisterPage
RouteProps == [login |-> {"onLogin"}, register |-> {"onRegister"}]

\* the methods of AnalyticsService the form handlers call after the await
AnalyticsMethods == {"trackFormSubmit", "trackFormError", "trackLogin",
                     "trackRegistration", "trackLogout"}

NoNotice == [form |-> "none", accepted |-> NoUser, error |-> FALSE]

\* onSubmit of LoginPage and RegisterPage after the await: on
\* response.success a success toast, onLogin(response.user) and a track
\* call; a rejected request, success false, a prop that is undefined or a
\* method that does not exist end in the catch, which reports the error
FormOutcome(form, track, accepted, u, before) ==
    LET called == accepted /\ "onLogin" \in RouteProps[form]
        tracked == called /\ track \in AnalyticsMethods
    IN  [user |-> IF called THEN u ELSE before,
         notice |-> [form |-> form,
                     accepted |-> IF accepted THEN u ELSE NoUser,
                     error |-> ~tracked]]

\* LoginPage.onSubmit after the await: onLogin is App.handleLogin
LoginResponse(r, status, body, u) ==
    /\ r \in Waiting("login")
    /\ AuthResponse(r, status, body)
    /\ LET out == FormOutcome("login", "trackLogin",
                              status = 200 /\ body.success, u, user)
       IN  user' = out.user /\ notice' = out.notice
    /\ location' = Settle(location, user', loading)
    /\ UNCHANGED <<loading, boot, clientVars, respVars, pageVars>>

\* RegisterPage.onSubmit after the await: App passes handleLogin as
\* onRegister, the page reads the prop onLogin and calls
\* analytics.trackRegister
RegisterResponse(r, status, body, u) ==
    /\ r \in Waiting("register")
    /\ AuthResponse(r, status, body)
    /\ LET out == FormOutcome("register", "trackRegister",
                              status = 200 /\ body.success, u, user)
       IN  user' = out.user /\ notice' = out.notice
    /\ location' = Settle(location, user', loading)
    /\ UNCHANGED <<loading, boot, clientVars, respVars, pageVars>>

\* the response to a data request passes the response interceptor
DataResponse(r, status) ==
    /\ r \in Waiting("data")
    /\ inflight' = inflight \ {r}
    /\ authToken' = ResponseInterceptor(status, authToken)
    /\ leaving' = (leaving \/ Redirects(status))
    /\ event' = Cleared(status)
    /\ UNCHANGED <<user, loading, location, boot, clientVars, respVars, pageVars>>
    /\ UNCHANGED notice

\* handleLogout, from the Navbar: setUser(null), then authAPI.logout()
handleLogout ==
    /\ ~loading
    /\ user # NoUser
    /\ user' = NoUser
    /\ authToken' = NoToken
    /\ leaving' = TRUE
    /\ event' = "logout"
    /\ location' = Settle(location, user', loading)
    /\ UNCHANGED <<loading, inflight, boot, clientVars, respVars, pageVars>>
    /\ UNCHANGED notice

\* the browser follows window.location.href = '/login': the page is loaded
\* anew
Reload ==
    /\ leaving
    /\ Mount("/login")
    /\ UNCHANGED <<authToken, event, clientVars, respVars, pageVars>>
    /\ UNCHANGED notice

\* the user follows a link inside the application
FollowLink(path) ==
    /\ ~loading
    /\ path # location
    /\ location' = Settle(path, user, loading)
    /\ UNCHANGED <<authToken, user, loading, leaving, inflight, boot, event,
                   clientVars, respVars, pageVars>>
    /\ UNCHANGED notice

\* time passes beyond the exp of the stored token
TokenExpires ==
    /\ authToken = "valid"
    /\ authToken' = "expired"
    /\ UNCHANGED <<user, loading, location, leaving, inflight, boot, event,
                   clientVars, respVars, pageVars>>
    /\ UNCHANGED notice

\* no browser has the application open
AppIdle ==
    /\ authToken = NoToken
    /\ user = NoUser
    /\ loading = TRUE
    /\ location = "/"
    /\ leaving = FALSE
    /\ inflight = {}
    /\ boot = "mounting"
    /\ event = "none"
    /\ notice = NoNotice

(* ----------------------------- AnalysisPage ---------------------------- *)

\* useState(null)
Null == "null"

\* runAnalysis invocations in one visit of the page
MaxRuns == 3

\* the records the server hands out for an uploaded CV and a job description
CvIds == {"cv1", "cv2"}
JdIds == {"jd1", "jd2"}

\* what the await of comparisonAPI.create can end in: a response with
\* success and a comparison that is complete, one with match_score 0, one
\* without highlighted content, a response with success false, a rejection
CreateOutcomes == {"full", "zero_score", "no_highlight", "refused", "error"}

\* analysisResponse.success
Success(k) == k \in {"full", "zero_score", "no_highlight"}

\* variant: a refused response is taken to be empty as well
hasEmptyResults_OrRefused(k) ==
    k \in {"zero_score", "no_highlight", "refused"}

\* const hasEmptyResults = analysisResponse.success && (...)
hasEmptyResults(k) == Success(k) /\ k \in {"zero_score", "no_highlight"}

NoResults == [cv |-> Null, jd |-> Null, run |-> 0, kind |-> Null]
NoTask == [at |-> "idle", cv |-> Null, jd |-> Null, run |-> 0]

\* the page is constructed
AnalysisIdle ==
    /\ step = "cv_upload"
    /\ cvData = Null
    /\ jdData = Null
    /\ isProcessing = FALSE
    /\ analysisResults = NoResults
    /\ task = NoTask
    /\ run = 0
    /\ resetRun = 0
    /\ responses = <<>>
    /\ settled = "none"

\* onCVDrop up to its await (the dropzone is disabled while isProcessing)
onCVDrop ==
    /\ step = "cv_upload"
    /\ ~isProcessing
    /\ isProcessing' = TRUE
    /\ task' = [NoTask EXCEPT !.at = "upload"]
    /\ UNCHANGED <<step, cvData, jdData, analysisResults, run, resetRun,
                   responses, settled>>
    /\ UNCHANGED <<clientVars, respVars, appVars, listVars>>

\* onCVDrop after the await of cvAPI.upload
UploadResponse(ok, id) ==
    /\ task.at = "upload"
    /\ IF ok
       THEN cvData' = id /\ step' = "jd_upload"
       ELSE UNCHANGED <<cvData, step>>
    /\ isProcessing' = FALSE
    /\ task' = NoTask
    /\ UNCHANGED <<jdData, analysisResults, run, resetRun, responses, settled>>
    /\ UNCHANGED <<clientVars, respVars, appVars, listVars>>

\* handleJobSubmit up to its await (the button is disabled while
\* isProcessing)
handleJobSubmit ==
    /\ step = "jd_upload"
    /\ ~isProcessing
    /\ isProcessing' = TRUE
    /\ task' = [NoTask EXCEPT !.at = "jd"]
    /\ UNCHANGED <<step, cvData, jdData, analysisResults, run, resetRun,
                   responses, settled>>
    /\ UNCHANGED <<clientVars, respVars, appVars, listVars>>

\* handleJobSubmit after the await of jobDescriptionAPI.create
JobResponse(ok, id) ==
    /\ task.at = "jd"
    /\ IF ok
       THEN jdData' = id /\ step' = "analyze"
       ELSE UNCHANGED <<jdData, step>>
    /\ isProcessing' = FALSE
    /\ task' = NoTask
    /\ UNCHANGED <<cvData, analysisResults, run, resetRun, responses, settled>>
    /\ UNCHANGED <<clientVars, respVars, appVars, listVars>>

\* runAnalysis up to its first await (the button is disabled while
\* isProcessing); without cvData or jdData it only shows a toast
runAnalysis ==
    /\ step = "analyze"
    /\ ~isProcessing
    /\ run < MaxRuns
    /\ IF cvData = Null \/ jdData = Null
       THEN UNCHANGED <<step, isProcessing, task, run, responses, settled>>
       ELSE /\ isProcessing' = TRUE
            /\ step' = "results"
            /\ run' = run + 1
            /\ task' = [at |-> "create", cv |-> cvData, jd |-> jdData,
                        run |-> run + 1]
            /\ responses' = <<>>
            /\ settled' = "none"
    /\ UNCHANGED <<cvData, jdData, analysisResults, resetRun>>
    /\ UNCHANGED <<clientVars, respVars, appVars, listVars>>

\* runAnalysis from `if (analysisResponse.success)` to the end of finally
Conclude(k) ==
    /\ IF Success(k)
       THEN /\ analysisResults' = [cv |-> task.cv, jd |-> task.jd,
                                   run |-> task.run, kind |-> k]
            /\ settled' = "stored"
            /\ UNCHANGED step
       ELSE /\ step' = "analyze"
            /\ settled' = "fell_back"
            /\ UNCHANGED analysisResults
    /\ isProcessing' = FALSE
    /\ task' = NoTask

\* runAnalysis after the await of the first comparisonAPI.create
CreateResponse(k) ==
    /\ task.at = "create"
    /\ responses' = Append(responses, k)
    /\ IF hasEmptyResults(k)
       THEN /\ task' = [task EXCEPT !.at = "wait"]
            /\ UNCHANGED <<step, analysisResults, isProcessing, settled>>
       ELSE Conclude(k)
    /\ UNCHANGED <<cvData, jdData, run, resetRun>>
    /\ UNCHANGED <<clientVars, respVars, appVars, listVars>>

\* the 3 second timer ends and comparisonAPI.create is called again
Retry ==
    /\ task.at = "wait"
    /\ task' = [task EXCEPT !.at = "retry"]
    /\ UNCHANGED <<step, cvData, jdData, isProcessing, analysisResults, run,
                   resetRun, responses, settled>>
    /\ UNCHANGED <<clientVars, respVars, appVars, listVars>>

\* runAnalysis after the await of the second comparisonAPI.create
RetryResponse(k) ==
    /\ task.at = "retry"
    /\ responses' = Append(responses, k)
    /\ Conclude(k)
    /\ UNCHANGED <<cvData, jdData, run, resetRun>>
    /\ UNCHANGED <<clientVars, respVars, appVars, listVars>>

\* resetAnalysis, the [NEW_ANALYSIS] button of the results step, which is
\* never disabled
resetAnalysis ==
    /\ step = "results"
    /\ step' = "cv_upload"
    /\ cvData' = Null
    /\ jdData' = Null
    /\ analysisResults' = NoResults
    /\ resetRun' = run
    /\ UNCHANGED <<isProcessing, task, run, responses, settled>>
    /\ UNCHANGED <<clientVars, respVars, appVars, listVars>>

AnalysisNext ==
    \/ onCVDrop
    \/ \E ok \in BOOLEAN, id \in CvIds : UploadResponse(ok, id)
    \/ handleJobSubmit
    \/ \E ok \in BOOLEAN, id \in JdIds : JobResponse(ok, id)
    \/ runAnalysis
    \/ \E k \in CreateOutcomes : CreateResponse(k)
    \/ Retry
    \/ \E k \in CreateOutcomes : RetryResponse(k)
    \/ resetAnalysis

(* ------------------------------ list pages ----------------------------- *)

\* ids the server gives to its records
MaxItems == 3

\* requests of one page at an await at the same time
MaxPending == 3

ItemIds == 1..MaxItems

ListPages == {"cvs", "job_descriptions", "comparisons"}

\* the analytics object of CVLibraryPage, a mock in the page's own file
MockMethods == {"trackPageView", "trackFileUpload", "trackClick",
                "trackCVUpload", "trackCVDelete", "trackError"}

\* the analytics object a page calls
Analytics(pg) == IF pg = "cvs" THEN MockMethods ELSE AnalyticsMethods

\* the method each page calls after a successful create or upload
CreateTrack == [cvs |-> "trackCVUpload",
                job_descriptions |-> "trackJobDescriptionCreate",
                comparisons |-> "trackComparisonCreate"]

\* the method each page calls after a successful delete
DeleteTrack == [cvs |-> "trackCVDelete",
                job_descriptions |-> "trackJobDescriptionDelete",
                comparisons |-> "trackComparisonDelete"]

\* a request at its await: the list the handler's closure saw, and what
\* the server has answered
Call(op, item, seen) ==
    [op |-> op, item |-> item, seen |-> seen, answer |-> "sent", body |-> {}]

Answered(r, answer, body) == [r EXCEPT !.answer = answer, !.body = body]

\* the page is constructed: useState([]), useState(true), useState(false)
ListIdle ==
    /\ listPage = "cvs"
    /\ mounted = FALSE
    /\ server = {}
    /\ gone = {}
    /\ items = {}
    /\ isLoading = TRUE
    /\ isSubmitting = FALSE
    /\ sent = {}
    /\ toasts = {}
    /\ removed = {}

\* loadCVs / loadJobDescriptions / loadComparisons up to the await
Load == [isLoading |-> TRUE, sent |-> sent \cup {Call("list", 0, {})}]

\* useEffect(() => { loadCVs(); analytics.trackPageView(...) }, [])
MountList ==
    /\ ~mounted
    /\ mounted' = TRUE
    /\ isLoading' = Load.isLoading
    /\ sent' = Load.sent
    /\ UNCHANGED <<listPage, server, gone, items, isSubmitting, toasts, removed>>
    /\ UNCHANGED <<clientVars, respVars, appVars, analysisVars>>

\* the server answers one request: a list with the records it holds, a
\* delete of a record it holds, a create with a new id, or a failure
Serve(r, ok) ==
    /\ r \in sent
    /\ r.answer = "sent"
    /\ IF ~ok \/ (r.op = "delete" /\ r.item \notin server)
       THEN /\ sent' = (sent \ {r}) \cup {Answered(r, "fail", {})}
            /\ UNCHANGED <<server, gone>>
       ELSE /\ sent' = (sent \ {r}) \cup {Answered(r, "ok", IF r.op = "list" THEN server ELSE {})}
            /\ server' = CASE r.op = "delete" -> server \ {r.item}
                           [] r.op = "create" ->
                                server \cup {CHOOSE i \in ItemIds \ (server \cup gone) :
                                                \A j \in ItemIds \ (server \cup gone) : i <= j}
                           [] OTHER -> server
            /\ gone' = IF r.op = "delete" THEN gone \cup {r.item} ELSE gone
    /\ UNCHANGED <<listPage, mounted, items, isLoading, isSubmitting, toasts, removed>>
    /\ UNCHANGED <<clientVars, respVars, appVars, analysisVars>>

\* loadCVs / loadJobDescriptions / loadComparisons after the await
ListResponse(r) ==
    /\ r \in sent
    /\ r.op = "list"
    /\ r.answer # "sent"
    /\ sent' = sent \ {r}
    /\ IF r.answer = "ok"
       THEN items' = r.body /\ toasts' = {}
       ELSE toasts' = {"error"} /\ UNCHANGED items
    /\ isLoading' = FALSE
    /\ UNCHANGED <<listPage, mounted, server, gone, isSubmitting, removed>>
    /\ UNCHANGED <<clientVars, respVars, appVars, analysisVars>>

\* handleDelete up to the await, the user having confirmed; the handler
\* of this render holds the list of this render
handleDelete(x) ==
    /\ mounted
    /\ ~isLoading
    /\ x \in items
    /\ Cardinality(sent) < MaxPending
    /\ sent' = sent \cup {Call("delete", x, items)}
    /\ UNCHANGED <<listPage, mounted, server, gone, items, isLoading, isSubmitting,
                   toasts, removed>>
    /\ UNCHANGED <<clientVars, respVars, appVars, analysisVars>>

\* setCvs(cvs.filter(c => c.id !== cv.id)), cvs being the handler's
Filtered(r, current) == r.seen \ {r.item}

\* handleDelete after the await
DeleteResponse(r) ==
    /\ r \in sent
    /\ r.op = "delete"
    /\ r.answer # "sent"
    /\ sent' = sent \ {r}
    /\ IF r.answer = "ok"
       THEN /\ items' = Filtered(r, items)
            /\ toasts' = IF DeleteTrack[listPage] \in Analytics(listPage)
                         THEN {"success"} ELSE {"success", "error"}
            /\ removed' = removed \cup {r.item}
       ELSE /\ toasts' = {"error"}
            /\ UNCHANGED <<items, removed>>
    /\ UNCHANGED <<listPage, mounted, server, gone, isLoading, isSubmitting>>
    /\ UNCHANGED <<clientVars, respVars, appVars, analysisVars>>

\* handleSubmit / onDrop up to the await (the form's button and the
\* dropzone are disabled while a submission is at its await)
handleSubmit ==
    /\ mounted
    /\ ~isLoading
    /\ ~isSubmitting
    /\ Cardinality(sent) < MaxPending
    /\ ItemIds \ (server \cup gone) # {}
    /\ isSubmitting' = TRUE
    /\ sent' = sent \cup {Call("create", 0, {})}
    /\ UNCHANGED <<listPage, mounted, server, gone, items, isLoading, toasts,
                   removed>>
    /\ UNCHANGED <<clientVars, respVars, appVars, analysisVars>>

\* handleSubmit / onDrop after the await: on response.success a success
\* toast, the page's track call, then the reload; a method that does not
\* exist throws into the catch before the reload
SubmitResponse(r) ==
    /\ r \in sent
    /\ r.op = "create"
    /\ r.answer # "sent"
    /\ IF r.answer = "ok" /\ CreateTrack[listPage] \in Analytics(listPage)
       THEN /\ toasts' = {"success"}
            /\ isLoading' = TRUE
            /\ sent' = (sent \ {r}) \cup {Call("list", 0, {})}
       ELSE /\ toasts' = IF r.answer = "ok" THEN {"success", "error"}
                         ELSE {"error"}
            /\ sent' = sent \ {r}
            /\ UNCHANGED isLoading
    /\ isSubmitting' = FALSE
    /\ UNCHANGED <<listPage, mounted, server, gone, items, removed>>
    /\ UNCHANGED <<clientVars, respVars, appVars, analysisVars>>

ListNext ==
    \/ MountList
    \/ \E r \in sent, ok \in BOOLEAN : Serve(r, ok)
    \/ \E r \in sent : ListResponse(r)
    \/ \E x \in ItemIds : handleDelete(x)
    \/ \E r \in sent : DeleteResponse(r)
    \/ handleSubmit
    \/ \E r \in sent : SubmitResponse(r)

\* nobody is on a page
PagesIdle == AnalysisIdle /\ ListIdle

(* ------------------------------ actions -------------------------------- *)

\* the LLMClient and its CircuitBreaker after construction, n invocations
\* at most in flight at once, none begun
ClientInit(n) ==
    /\ workers = n
    /\ state = "CLOSED"
    /\ failure_count = 0
    /\ last_failure_time = None
    /\ now = 0
    /\ pc = [p \in 1..n |-> "idle"]
    /\ attempt = [p \in 1..n |-> 0]
    /\ request = [p \in 1..n |-> <<>>]
    /\ wake = [p \in 1..n |-> 0]
    /\ result = [p \in 1..n |-> NoResult]
    /\ raised = [p \in 1..n |-> FALSE]
    /\ calls = [p \in 1..n |-> 0]
    /\ log = [p \in 1..n |-> <<>>]
    /\ at_start = [p \in 1..n |-> "none"]
    /\ streak = 0
    /\ started = 0

\* no completion is being processed on its own
RespIdle ==
    /\ completion = <<>>
    /\ schema = RequiredFieldList
    /\ outcome = Pending

Init == ClientInit(NumProcs) /\ RespIdle /\ AppIdle /\ PagesIdle

\* one iteration of `for attempt in range(self.retry_attempts)` up to the
\* await of make_llm_call; req, n and lg are the invocation's request and
\* its call count and log before the iteration, t is time.time()
LoopTop(p, req, n, lg, t) ==
    /\ state' = is_open_state(state, last_failure_time, t)
    /\ UNCHANGED <<failure_count, last_failure_time>>
    /\ IF is_open(state, last_failure_time, t)
       THEN /\ InvokeRaise(p, req, "CircuitBreakerOpenException")
            /\ calls' = [calls EXCEPT ![p] = n]
            /\ log' = [log EXCEPT ![p] = Append(lg, "skip")]
       ELSE /\ pc' = [pc EXCEPT ![p] = "call"]
            /\ result' = [result EXCEPT ![p] = NoResult]
            /\ raised' = [raised EXCEPT ![p] = FALSE]
            /\ calls' = [calls EXCEPT ![p] = n + 1]
            /\ log' = [log EXCEPT ![p] = lg]

\* No await separates the return of invoke() from its caller taking the
\* ParseResult: nothing else runs on the event loop while a result is
\* being handed over.
Quiet == \A q \in Procs : pc[q] # "done"

\* the circuit as is_open() finds it: the state, and for OPEN the time since
\* the last failure against the cooldown
Circuit(st, last, t) ==
    IF st # "OPEN" THEN st
    ELSE IF t - last < recovery_timeout THEN "OPEN_cooling"
    ELSE IF t - last = recovery_timeout THEN "OPEN_edge"
    ELSE "OPEN_elapsed"

\* a caller invokes the parser on a request
Invoke(p, req) ==
    /\ Quiet
    /\ pc[p] = "idle"
    /\ started < MaxInvocations
    /\ started' = started + 1
    /\ request' = [request EXCEPT ![p] = req]
    /\ attempt' = [attempt EXCEPT ![p] = 0]
    /\ at_start' = [at_start EXCEPT ![p] = Circuit(state, last_failure_time, now)]
    /\ LoopTop(p, req, 0, <<>>, now)
    /\ UNCHANGED <<now, wake, streak,
                   workers, otherVars>>

Max(a, b) == IF a > b THEN a ELSE b

\* variant: the sleep polls a clock that it does not let advance
Wake_Polls(p) ==
    /\ Quiet
    /\ pc[p] = "backoff"
    /\ now >= wake[p]
    /\ now' = now
    /\ wake' = [wake EXCEPT ![p] = 0]
    /\ attempt' = [attempt EXCEPT ![p] = @ + 1]
    /\ LoopTop(p, request[p], calls[p], log[p], now')
    /\ UNCHANGED <<request, at_start, streak, started,
                   workers, otherVars>>

\* the sleep ends, no earlier than 2 ** attempt seconds after it began,
\* and the loop goes to its next iteration
Wake(p) ==
    /\ Quiet
    /\ pc[p] = "backoff"
    /\ now' = Max(now, wake[p])
    /\ wake' = [wake EXCEPT ![p] = 0]
    /\ attempt' = [attempt EXCEPT ![p] = @ + 1]
    /\ LoopTop(p, request[p], calls[p], log[p], now')
    /\ UNCHANGED <<request, at_start, streak, started,
                   workers, otherVars>>

\* make_llm_call of the current iteration delivers a completion:
\* record_success(), return response
CallSucceeds(p, r) ==
    /\ Quiet
    /\ pc[p] = "call"
    /\ record_success
    /\ streak' = 0
    /\ Processed(p, r)
    /\ UNCHANGED <<now, attempt, request, calls, at_start, started,
                   workers, otherVars>>

\* variant: the last attempt is taken to be number retry_attempts
CallFails_OffByOne(p, exc) ==
    /\ Quiet
    /\ pc[p] = "call"
    /\ exc \in TransientErrors
    /\ record_failure
    /\ streak' = streak + 1
    /\ Logged(p, "transient")
    /\ IF attempt[p] = retry_attempts
       THEN /\ pc' = [pc EXCEPT ![p] = "fallback_call"]
            /\ calls' = [calls EXCEPT ![p] = @ + 1]
            /\ UNCHANGED <<wake, result, raised>>
       ELSE /\ Backoff(p)
            /\ UNCHANGED calls
    /\ UNCHANGED <<now, attempt, request, at_start, started,
                   workers, otherVars>>

\* variant: after the last attempt an empty completion is returned
CallFails_ReturnsEmpty(p, exc) ==
    /\ Quiet
    /\ pc[p] = "call"
    /\ exc \in TransientErrors
    /\ record_failure
    /\ streak' = streak + 1
    /\ Logged(p, "transient")
    /\ IF attempt[p] = retry_attempts - 1
       THEN /\ InvokeReturn(p, [wellformed |-> TRUE, present |-> {}])
            /\ UNCHANGED <<wake, calls>>
       ELSE /\ Backoff(p)
            /\ UNCHANGED calls
    /\ UNCHANGED <<now, attempt, request, at_start, started,
                   workers, otherVars>>

\* variant: record_failure() reads the counter, yields, and writes it back:
\* an increment made while another call is in flight is lost
CallFails_LostUpdate(p, exc) ==
    /\ Quiet
    /\ pc[p] = "call"
    /\ exc \in TransientErrors
    /\ LET cnt == IF \E q \in Procs \ {p} : pc[q] = "call"
                  THEN failure_count ELSE failure_count + 1
       IN  /\ failure_count' = cnt
           /\ last_failure_time' = now
           /\ state' = record_failure_state(state, cnt)
    /\ streak' = streak + 1
    /\ Logged(p, "transient")
    /\ IF attempt[p] = retry_attempts - 1
       THEN /\ pc' = [pc EXCEPT ![p] = "fallback_call"]
            /\ calls' = [calls EXCEPT ![p] = @ + 1]
            /\ UNCHANGED <<wake, result, raised>>
       ELSE /\ Backoff(p)
            /\ UNCHANGED calls
    /\ UNCHANGED <<now, attempt, request, at_start, started,
                   workers, otherVars>>

\* make_llm_call raises TimeoutError or ConnectionError: record_failure(),
\* then the fallback model after the last attempt, else the backoff sleep
CallFails(p, exc) ==
    /\ Quiet
    /\ pc[p] = "call"
    /\ exc \in TransientErrors
    /\ record_failure
    /\ streak' = streak + 1
    /\ Logged(p, "transient")
    /\ IF attempt[p] = retry_attempts - 1
       THEN /\ pc' = [pc EXCEPT ![p] = "fallback_call"]
            /\ calls' = [calls EXCEPT ![p] = @ + 1]
            /\ UNCHANGED <<wake, result, raised>>
       ELSE /\ Backoff(p)
            /\ UNCHANGED calls
    /\ UNCHANGED <<now, attempt, request, at_start, started,
                   workers, otherVars>>

\* variant: the except clause catches every exception
CallRejected_Retried(p) ==
    /\ Quiet
    /\ pc[p] = "call"
    /\ record_failure
    /\ streak' = streak + 1
    /\ Logged(p, "AuthError")
    /\ IF attempt[p] = retry_attempts - 1
       THEN /\ pc' = [pc EXCEPT ![p] = "fallback_call"]
            /\ calls' = [calls EXCEPT ![p] = @ + 1]
            /\ UNCHANGED <<wake, result, raised>>
       ELSE /\ Backoff(p)
            /\ UNCHANGED calls
    /\ UNCHANGED <<now, attempt, request, at_start, started,
                   workers, otherVars>>

\* make_llm_call raises an exception the except clause does not name
\* (bad or missing credentials): it leaves call_with_retry at once
CallRejected(p) ==
    /\ Quiet
    /\ pc[p] = "call"
    /\ Logged(p, "AuthError")
    /\ InvokeRaise(p, request[p], "AuthError")
    /\ UNCHANGED <<cbVars, now, attempt, request, wake, calls, at_start,
                   streak, started,
                   workers, otherVars>>

\* try_fallback_model: its make_llm_call delivers a completion, which
\* call_with_retry returns
FallbackSucceeds(p, r) ==
    /\ Quiet
    /\ pc[p] = "fallback_call"
    /\ IF r.wellformed
       THEN InvokeReturn(p, r) /\ Logged(p, "ok")
       ELSE InvokeRaise(p, request[p], "LLMProcessingException")
                /\ Logged(p, "malformed")
    /\ UNCHANGED <<cbVars, now, attempt, request, wake, calls, at_start,
                   streak, started,
                   workers, otherVars>>

\* try_fallback_model: its make_llm_call raises; nothing catches the
\* exception inside call_with_retry
FallbackFails(p, exc) ==
    /\ Quiet
    /\ pc[p] = "fallback_call"
    /\ exc \in TransientErrors \cup {"AuthError"}
    /\ Logged(p, exc)
    /\ InvokeRaise(p, request[p], exc)
    /\ UNCHANGED <<cbVars, now, attempt, request, wake, calls, at_start,
                   streak, started,
                   workers, otherVars>>

\* the caller takes the ParseResult; the ParseRequest is discarded
Collect(p) ==
    /\ pc[p] = "done"
    /\ pc' = [pc EXCEPT ![p] = "idle"]
    /\ attempt' = [attempt EXCEPT ![p] = 0]
    /\ request' = [request EXCEPT ![p] = <<>>]
    /\ result' = [result EXCEPT ![p] = NoResult]
    /\ raised' = [raised EXCEPT ![p] = FALSE]
    /\ calls' = [calls EXCEPT ![p] = 0]
    /\ log' = [log EXCEPT ![p] = <<>>]
    /\ at_start' = [at_start EXCEPT ![p] = "none"]
    /\ UNCHANGED <<cbVars, now, wake, streak, started,
                   workers, otherVars>>

\* d seconds pass in which nothing else happens
Pass(d) ==
    /\ Quiet
    /\ now <= MaxTime
    /\ now' = now + d
    /\ UNCHANGED <<cbVars, pc, attempt, request, wake, result, raised, calls,
                   log, at_start, streak, started,
                   workers, otherVars>>

Next ==
    \/ \E p \in Procs, req \in ParseRequests : Invoke(p, req)
    \/ \E p \in Procs : Wake(p)
    \/ \E p \in Procs, r \in Responses : CallSucceeds(p, r)
    \/ \E p \in Procs, exc \in TransientErrors : CallFails(p, exc)
    \/ \E p \in Procs : CallRejected(p)
    \/ \E p \in Procs, r \in Responses : FallbackSucceeds(p, r)
    \/ \E p \in Procs, exc \in TransientErrors \cup {"AuthError"} : FallbackFails(p, exc)
    \/ \E p \in Procs : Collect(p)
    \/ \E d \in Delays : Pass(d)

Spec == Init /\ [][Next]_vars

\* The event loop runs every task that is ready: a sleep ends, a network
\* call ends (at the latest in a timeout), a result is taken.
Step(p) ==
    \/ Wake(p)
    \/ \E r \in Responses : CallSucceeds(p, r)
    \/ \E exc \in TransientErrors : CallFails(p, exc)
    \/ CallRejected(p)
    \/ \E r \in Responses : FallbackSucceeds(p, r)
    \/ \E exc \in TransientErrors \cup {"AuthError"} : FallbackFails(p, exc)
    \/ Collect(p)

FairSpec == Spec /\ \A p \in 1..NumProcs : WF_vars(Step(p))

\* the same client with several invocations in flight at once
ConcInit == ClientInit(NumConcurrent) /\ RespIdle /\ AppIdle /\ PagesIdle

ConcSpec == ConcInit /\ [][Next]_vars

\* Response processing on its own: a completion, wrapped in code-fence
\* markers or not, is processed against a required-field list.
RespInit ==
    /\ ClientInit(NumProcs)
    /\ \E t \in JsonTexts, w \in Wrappings : completion = Wrap(w, t)
    /\ schema \in Schemas
    /\ outcome = Pending
    /\ AppIdle
    /\ PagesIdle

RespNext == process_response

RespSpec == RespInit /\ [][RespNext]_vars

\* The web client: a browser opens the application at some path, with
\* whatever an earlier visit left in localStorage.
AppInit ==
    /\ ClientInit(NumProcs)
    /\ RespIdle
    /\ authToken \in Tokens \cup {NoToken}
    /\ user = NoUser
    /\ loading = TRUE
    /\ location \in Paths
    /\ leaving = FALSE
    /\ inflight = {}
    /\ boot = "mounting"
    /\ event = "none"
    /\ notice = NoNotice
    /\ PagesIdle

AppNext ==
    \/ Startup
    \/ \E r \in inflight, st \in Statuses, u \in Users : ProfileResponse(r, st, u)
    \/ SubmitLogin
    \/ SubmitRegister
    \/ Fetch
    \/ \E r \in inflight, st \in Statuses, b \in AuthBodies, u \in Users :
           LoginResponse(r, st, b, u)
    \/ \E r \in inflight, st \in Statuses, b \in AuthBodies, u \in Users :
           RegisterResponse(r, st, b, u)
    \/ \E r \in inflight, st \in Statuses : DataResponse(r, st)
    \/ handleLogout
    \/ Reload
    \/ \E path \in Paths : FollowLink(path)
    \/ TokenExpires

AppSpec == AppInit /\ [][AppNext]_vars

\* The effect runs after the first render; a request sent through axios is
\* answered or times out (timeout: 30000); an assigned window.location.href
\* is followed.
AppFairSpec ==
    AppSpec /\ WF_vars(Startup)
            /\ WF_vars(\E r \in inflight, st \in Statuses, u \in Users :
                           ProfileResponse(r, st, u))
            /\ WF_vars(Reload)

\* AnalysisPage on its own, from its construction
AnalysisInit == ClientInit(NumProcs) /\ RespIdle /\ AppIdle /\ PagesIdle

AnalysisSpec == AnalysisInit /\ [][AnalysisNext]_vars

\* one of the list pages from its construction, the server holding any
\* records
ListInit ==
    /\ ClientInit(NumProcs)
    /\ RespIdle
    /\ AppIdle
    /\ AnalysisIdle
    /\ listPage \in ListPages
    /\ mounted = FALSE
    /\ server \in SUBSET (1..(MaxItems - 1))
    /\ gone = {}
    /\ items = {}
    /\ isLoading = TRUE
    /\ isSubmitting = FALSE
    /\ sent = {}
    /\ toasts = {}
    /\ removed = {}

ListSpec == ListInit /\ [][ListNext]_vars

(* ------------------------------- claims -------------------------------- *)

Running(p) == pc[p] \notin {"idle", "done"}

Last(sq) == sq[Len(sq)]

\* the outcomes of network calls that delivered a completion
Completions == {"ok", "malformed"}

\* C1: whatever the outcomes of its calls, invoke() returns a ParseResult
\* with confidence in [0,1] and raises nothing; every path that does not end
\* in a parsed completion returns a result with is_degraded = true
C1_AlwaysParseResult ==
    \A p \in Procs : pc[p] = "done" =>
        /\ ~raised[p]
        /\ DOMAIN result[p].fields = RequiredFields
        /\ result[p].confidence \in 0..100
        /\ Last(log[p]) # "ok" => result[p].is_degraded

C1_Witness ==
    \E p \in Procs :
        /\ pc[p] = "done"
        /\ Last(log[p]) \in TransientErrors
        /\ result[p].is_degraded
        /\ ~raised[p]

\* C2: after failure_threshold consecutive recorded transient failures, with
\* no recorded success in between, the circuit is OPEN (and stays OPEN while
\* the cooldown runs)
C2_OpenAfterThreshold ==
    (streak >= failure_threshold /\ now - last_failure_time <= recovery_timeout)
        => state = "OPEN"

C2_Witness == streak = failure_threshold /\ state = "OPEN"

\* C3: an invocation that starts while the circuit is OPEN and the time
\* since the last failure is below the cooldown makes no network call and
\* returns the output of the fallback extractor
C3_OpenSkipsNetwork ==
    \A p \in Procs : at_start[p] = "OPEN_cooling" =>
        /\ pc[p] = "done"
        /\ calls[p] = 0
        /\ result[p] = FallbackExtractor(request[p], "CircuitBreakerOpenException")

C3_Witness ==
    \E p \in Procs : at_start[p] = "OPEN_cooling" /\ pc[p] = "done"

\* C4: an invocation that starts while the circuit is OPEN and the cooldown
\* has elapsed calls the network with the state at HALF_OPEN, and when that
\* call delivers a completion the state becomes CLOSED
C4_HalfOpenProbe ==
    [][\A p \in Procs :
          /\ (/\ pc[p] = "idle" /\ pc'[p] # "idle"
              /\ state = "OPEN"
              /\ now - last_failure_time > recovery_timeout)
                 => (pc'[p] = "call" /\ calls'[p] = 1 /\ state' = "HALF_OPEN")
          /\ (/\ pc[p] = "call" /\ attempt[p] = 0
              /\ at_start[p] = "OPEN_elapsed"
              /\ log'[p] # log[p]
              /\ Last(log'[p]) \in Completions)
                 => state' = "CLOSED"]_vars

C4_Witness ==
    \E p \in Procs :
        /\ at_start[p] = "OPEN_elapsed"
        /\ pc[p] = "done"
        /\ log[p] = <<"ok">>
        /\ state = "CLOSED"

\* C5: after any network call that delivers a completion, whatever the
\* state before, the failure counter is 0 and the state is CLOSED
C5_SuccessResets ==
    [][\A p \in Procs :
          (/\ pc[p] \in {"call", "fallback_call"}
           /\ log'[p] # log[p]
           /\ Last(log'[p]) \in Completions)
              => (failure_count' = 0 /\ state' = "CLOSED")]_vars

\* C6 as stated: an invocation never makes more than 3 network calls,
\* the fallback-model call included
C6_AtMostThreeCalls == \A p \in Procs : calls[p] <= 3

\* C6 as amended: an invocation makes at most retry_attempts calls of the
\* primary model, one per loop iteration, and at most one fallback-model
\* call, which follows the failure of the last attempt: 4 calls at most
C6_AtMostFourCalls ==
    \A p \in Procs :
        /\ attempt[p] <= retry_attempts - 1
        /\ calls[p] <= attempt[p] + 2
        /\ calls[p] = attempt[p] + 2 =>
              /\ attempt[p] = retry_attempts - 1
              /\ Len(log[p]) >= retry_attempts
              /\ log[p][retry_attempts] = "transient"

C6_Witness == \E p \in Procs : calls[p] = retry_attempts + 1

\* C7: every invocation terminates: whatever the outcomes of its attempts,
\* an invocation that is running eventually returns its result
C7_Terminates == \A p \in 1..NumProcs : Running(p) ~> pc[p] = "done"

C7_Witness ==
    \E p \in Procs :
        /\ pc[p] = "done"
        /\ attempt[p] = retry_attempts - 1
        /\ Last(log[p]) = "malformed"

\* C8: when a call fails with an authentication or configuration error, the
\* invocation makes no further network call and returns at once a degraded
\* ParseResult whose notes name the cause
C8_AuthFatal ==
    \A p \in Procs : \A i \in DOMAIN log[p] :
        log[p][i] = "AuthError" =>
            /\ i = Len(log[p])
            /\ calls[p] = Len(log[p])
            /\ pc[p] = "done"
            /\ result[p].is_degraded
            /\ \E j \in DOMAIN result[p].parsing_notes :
                   result[p].parsing_notes[j] = "AuthError"

C8_Witness ==
    \E p \in Procs :
        /\ pc[p] = "done"
        /\ log[p] = <<"transient", "AuthError">>
        /\ calls[p] = 2

\* C9: when every network call of an invocation fails, the result is the
\* output of the fallback extractor for the same request, with
\* is_degraded = true and confidence not above the low ceiling
C9_AllFailFallback ==
    \A p \in Procs :
        (/\ pc[p] = "done"
         /\ calls[p] >= 1
         /\ \A i \in DOMAIN log[p] : log[p][i] \notin Completions)
            => /\ \E cause \in Exceptions :
                      result[p] = FallbackExtractor(request[p], cause)
               /\ result[p].is_degraded
               /\ result[p].confidence <= LowCeiling

C9_Witness ==
    \E p \in Procs :
        /\ pc[p] = "done"
        /\ calls[p] = retry_attempts + 1
        /\ Last(log[p]) \in TransientErrors
        /\ result[p].confidence = LowCeiling

\* C10: a returned ParseResult has is_degraded = true exactly when the
\* fallback extractor produced it; a result built from a completion is not
\* degraded, also when required fields were missing and only annotated
C10_DegradedIffFallback ==
    \A p \in Procs : pc[p] = "done" =>
        /\ result[p].is_degraded <=>
              \E cause \in Exceptions :
                  result[p] = FallbackExtractor(request[p], cause)
        /\ result[p].is_degraded <=> Last(log[p]) # "ok"

C10_Witness ==
    \E p \in Procs :
        /\ pc[p] = "done"
        /\ Last(log[p]) = "ok"
        /\ Len(result[p].parsing_notes) > 0
        /\ ~result[p].is_degraded

\* C11: for every parsed response and every required-field list, each
\* required field the response lacks is in the result with an empty default
\* and is named by a parsing note, and the completeness score is the number
\* of required fields present over the number expected (in hundredths,
\* rounded down)
C11_MissingFieldsAnnotated ==
    outcome.status = "parsed" =>
        LET res == outcome.result
            n   == Cardinality(Range(schema) \cap Range(completion))
            m   == Len(schema)
        IN  /\ DOMAIN res.fields = Range(schema)
            /\ \A f \in Range(schema) : f \notin Range(completion) =>
                   /\ res.fields[f] = <<>>
                   /\ \E i \in DOMAIN res.parsing_notes : res.parsing_notes[i] = f
            /\ res.confidence * m <= n * 100
            /\ n * 100 < (res.confidence + 1) * m

C11_Witness ==
    /\ outcome.status = "parsed"
    /\ Len(schema) = 3
    /\ Range(completion) \cap Range(schema) = {"job_title"}
    /\ outcome.result.confidence = 33
    /\ Len(outcome.result.parsing_notes) = 2

\* C12: processing a completion that is a JSON text between the json code
\* fence and the closing fence yields what processing the JSON text alone
\* yields
C12_FencedSameAsBare ==
    (/\ outcome.status # "pending"
     /\ Len(completion) >= 2
     /\ Head(completion) = FenceJson
     /\ completion[Len(completion)] = Fence)
        => outcome = process_outcome(SubSeq(completion, 2, Len(completion) - 1),
                                     schema)

C12_Witness ==
    /\ completion = <<FenceJson, "{", "job_title", "}", Fence>>
    /\ outcome.status = "parsed"
    /\ outcome.response.present = {"job_title"}

SequentialStates(n) ==
    IF n >= failure_threshold THEN {"OPEN", "HALF_OPEN"} ELSE {"CLOSED"}

C15_OpenEndsAttempts ==
    [][\A p \in Procs :
          (/\ pc[p] = "call"
           /\ log'[p] # log[p]
           /\ Last(log'[p]) = "transient"
           /\ state' = "OPEN")
              => (calls'[p] = calls[p] /\ pc'[p] # "fallback_call")]_vars

\* C16: the circuit is never CLOSED while the failure counter has reached
\* the threshold
C16_ClosedBelowThreshold ==
    state = "CLOSED" => failure_count < failure_threshold

C16_Witness ==
    /\ state = "CLOSED"
    /\ failure_count = failure_threshold - 1
    /\ \E p \in Procs : pc[p] = "backoff" /\ Last(log[p]) = "transient"

\* C17: when the state is HALF_OPEN and the probe call fails, that one
\* failure sets the state to OPEN and the cooldown runs anew from the time
\* of the failure: is_open() holds the network closed for recovery_timeout
\* seconds from then on
C17_ProbeFailureReopens ==
    [][\A p \in Procs :
          (/\ state = "HALF_OPEN"
           /\ pc[p] = "call"
           /\ log'[p] # log[p]
           /\ Last(log'[p]) = "transient")
              => /\ state' = "OPEN"
                 /\ last_failure_time' = now
                 /\ \A t \in now..(now + recovery_timeout) :
                        is_open(state', last_failure_time', t)]_vars

C17_Witness ==
    \E p \in Procs :
        /\ at_start[p] = "OPEN_elapsed"
        /\ log[p] = <<"transient", "skip">>
        /\ pc[p] = "done"
        /\ state = "OPEN"
        /\ failure_count = failure_threshold + 1
        /\ result[p].is_degraded

\* C18: startup always ends with loading = false.  The effect asks for the
\* profile only when the stored token has exp ahead, and user is set while
\* loading only by the profile response that succeeded; with a token that
\* is expired or cannot be decoded, and when the profile request fails, the
\* token is removed, user stays null and loading ends
C18_StartupEnds ==
    /\ [][/\ (boot = "mounting" /\ boot' = "profile") => authToken = "valid"
          /\ (loading /\ user' # user) =>
                 (boot = "profile" /\ boot' = "profile_ok" /\ ~loading')
          /\ (/\ boot = "mounting" /\ boot' # "mounting"
              /\ authToken \in {"expired", "undecodable"}) =>
                 (authToken' = NoToken /\ user' = NoUser /\ ~loading')
          /\ (boot = "profile" /\ boot' = "profile_failed") =>
                 (authToken' = NoToken /\ user' = NoUser /\ ~loading')]_vars
    /\ (loading ~> ~loading)

C18_Witness ==
    /\ boot = "profile_ok"
    /\ user # NoUser
    /\ ~loading
    /\ authToken = "valid"

\* C19: no protected page is rendered while user is null or loading is
\* true, and the login and register pages are not rendered while user is
\* set
C19_RoutesGuarded ==
    /\ Page \in ProtectedPaths => (user # NoUser /\ ~loading)
    /\ Page \in PublicPaths => user = NoUser

C19_Witness ==
    /\ Page = "/comparisons/:id"
    /\ user # NoUser
    /\ event = "unauthorized"

\* C20: a request is sent with the Authorization header exactly when a token
\* is stored at that moment; once a 401 response or a logout has cleared the
\* token none is stored, and a token comes to be stored again only with a
\* login or register response that holds an access_token
C20_BearerIffStored ==
    [][/\ \A r \in inflight' \ inflight :
              (r.Authorization = "Bearer") <=> (authToken # NoToken)
       /\ event' \in {"unauthorized", "logout"} => authToken' = NoToken
       /\ (authToken = NoToken /\ authToken' # NoToken) =>
              /\ event' = "delivered"
              /\ \E r \in inflight \ inflight' : r.kind \in {"login", "register"}]_vars

C20_Witness ==
    /\ event = "unauthorized"
    /\ user # NoUser
    /\ authToken = NoToken
    /\ \E r \in inflight : r.kind = "data" /\ r.Authorization = "absent"

\* C21: on AnalysisPage, whatever the order of user actions and request
\* completions, step "analyze" or "results" implies that cvData and jdData
\* are both non-null.
C21_StepHasData ==
    step \in {"analyze", "results"} => cvData # Null /\ jdData # Null

\* C22: after resetAnalysis, analysisResults stays null until an analysis
\* started after that reset succeeds: the result of an analysis started
\* before the reset is never stored afterwards.
C22_NoStaleResults ==
    analysisResults # NoResults => analysisResults.run > resetRun

\* C23: one runAnalysis invocation calls comparisonAPI.create at most
\* twice, the second time only when the first response was successful but
\* empty, and the last response alone decides between storing the results
\* and falling back to step "analyze".
C23_RetryOnceOnEmpty ==
    [][/\ Len(responses') <= 2
       /\ task'.at \in {"wait", "retry"} =>
              /\ Len(responses') = 1
              /\ responses'[1] \in {"zero_score", "no_highlight"}
       /\ Len(responses') = 2 =>
              responses'[1] \in {"zero_score", "no_highlight"}
       /\ (settled = "none" /\ settled' # "none") =>
              LET last == responses'[Len(responses')]
              IN  IF last \in {"full", "zero_score", "no_highlight"}
                  THEN /\ settled' = "stored"
                       /\ analysisResults'.kind = last
                       /\ analysisResults'.run = task.run
                       /\ step' = step
                  ELSE /\ settled' = "fell_back"
                       /\ step' = "analyze"
                       /\ analysisResults' = analysisResults
       /\ (Len(responses') > Len(responses) /\ settled' = "none") =>
              task'.at = "wait"]_vars

C23_Witness ==
    /\ responses = <<"zero_score", "full">>
    /\ settled = "stored"
    /\ analysisResults.kind = "full"

\* C26: when the server accepts a registration (response.success), the
\* registration handler makes App's user the registered user and reports no
\* error.
C26_RegistrationLogsIn ==
    [][((\E r \in inflight \ inflight' : r.kind = "register")
            /\ notice'.form = "register"
            /\ notice'.accepted # NoUser)
         => (user' = notice'.accepted /\ ~notice'.error)]_vars

\* C24: on CVLibraryPage and JobDescriptionsPage, an item that a successful
\* delete has removed from the displayed list does not reappear in it, and
\* a successful delete drops no other item from the list, whatever deletes
\* and reloads are in flight.
C24_DeletesKeepList ==
    [][(listPage \in {"cvs", "job_descriptions"}) =>
          /\ removed' \cap items' = {}
          /\ \A r \in sent \ sent' :
                 (r.op = "delete" /\ r.answer = "ok") =>
                     (items \ {r.item}) \subseteq (items')
      ]_vars

\* C25: after a create or upload request returns success, the page starts
\* the reload of its list and reports no error.
C25_CreateReloads ==
    [][\A r \in sent \ sent' :
          (r.op = "create" /\ r.answer = "ok") =>
              /\ isLoading'
              /\ \E q \in sent' : q.op = "list" /\ q.answer = "sent"
              /\ "error" \notin (toasts')
      ]_vars

====
